---- MODULE Spec2Model ----
(***************************************************************************)
(* A model of lsm-rs: the record codec (block.rs), the write-ahead log      *)
(* writer (wal.rs) and the MemTable / ImmutableMemtable (memtable.rs).      *)
(*                                                                         *)
(* A buffer is known by its length; a record's payload is the slice         *)
(* [lo, hi) of the buffer it borrows (block.rs: data: &'a [u8]).            *)
(* A usize difference that underflows is kept as the negative integer d     *)
(* that stands for 2^64 + d: a build with overflow checks panics on it, a   *)
(* build without them goes on with the wrapped value, which is non-zero     *)
(* and larger than every small constant.                                   *)
(***************************************************************************)
EXTENDS Integers, Sequences, FiniteSets, TLC

\* ------------------------------------------------------------ types.rs
TOMBSTONE == <<107, 229, 165, 162>>
WAL_LOG_MAX_SIZE == 4 * 1024 * 1024
BLOCK_MAX_SIZE == 32 * 1024
BLOCK_MIN_FREE_SIZE == 6

\* ------------------------------------------------------------ block.rs
RECORD_EXTRA_SIZE == 7
U16_MAX == 65535

\* Record::new: the slice [lo, hi) of the buffer, tagged.
Record_new(typ, lo, hi) == [typ |-> typ, lo |-> lo, hi |-> hi]

\* data.len()
DataLen(r) == r.hi - r.lo

\* the assertion of Record::new fails
RecordNewPanics(r) == ~(DataLen(r) < U16_MAX)

\* A write_to that leaves out the type byte.
WireLenNoType(r) == 4 + 2 + DataLen(r)

\* bytes write_to hands to the writer: 4 + 2 + 1 header bytes, then the data
WireLen(r) == 4 + 2 + 1 + DataLen(r)

\* The divergent sizing the design notes warn of: a whole block of payload.
MiddleSizeNoHeader == BLOCK_MAX_SIZE

\* payload of a Middle record, and the step of the loop's cursor
MiddleSize == BLOCK_MAX_SIZE - RECORD_EXTRA_SIZE

\* A first record sized to the whole remainder, header forgotten.
FirstIndexWhole(free_block_size) == free_block_size

\* let mut index = free_block_size - RECORD_EXTRA_SIZE
FirstIndex(free_block_size) == free_block_size - RECORD_EXTRA_SIZE

\* A last record that starts one byte late.
LastRecordSkip(index, len) == Record_new("Last", index + 1, len)

\* records.push(Record::new(Type::Last, &buf[index..]))
LastRecord(index, len) == Record_new("Last", index, len)

\* A loop test with <= for <: it runs once more when the rest is a whole payload.
MiddleCountInclusive(index, len) ==
    Cardinality({k \in 0..(len \div MiddleSize) :
                   index + k * MiddleSize + MiddleSize <= len})

\* A loop test that gives up one block early.
MiddleCountEarlyStop(index, len) ==
    Cardinality({k \in 0..(len \div MiddleSize) :
                   index + k * MiddleSize + 2 * MiddleSize < len})

\* how often the while loop runs from cursor index: its test
\* index + (BLOCK_MAX_SIZE - RECORD_EXTRA_SIZE) < buf.len() holds for the
\* cursors index, index + MiddleSize, ... up to the first one that fails it
MiddleCount(index, len) ==
    Cardinality({k \in 0..(len \div MiddleSize) :
                   index + k * MiddleSize + MiddleSize < len})

\* the Middle records the loop pushes, then the Last record
MiddleLoop(records, index, len) ==
    LET n == MiddleCount(index, len) IN
    records
    \o [k \in 1..n |-> Record_new("Middle", index + (k - 1) * MiddleSize,
                                  index + k * MiddleSize)]
    \o << LastRecord(index + n * MiddleSize, len) >>

\* the body of make_records_from_buf once free_block_size >= RECORD_EXTRA_SIZE;
\* a negative free_block_size is a wrapped usize, larger than any length
SplitFrom(free_block_size, len) ==
    IF free_block_size < 0 \/ free_block_size >= len + RECORD_EXTRA_SIZE
    THEN << Record_new("Full", 0, len) >>
    ELSE MiddleLoop(<< Record_new("First", 0, FirstIndex(free_block_size)) >>,
                    FirstIndex(free_block_size), len)

\* A make_records_from_buf without the floor test.
make_records_from_buf_no_floor(free_block_size, len) == SplitFrom(free_block_size, len)

\* make_records_from_buf(free_block_size, buf), buf of length len: below the
\* floor it calls itself for a whole block
RECURSIVE make_records_from_buf(_, _)
make_records_from_buf(free_block_size, len) ==
    IF free_block_size >= 0 /\ free_block_size < RECORD_EXTRA_SIZE
    THEN make_records_from_buf(BLOCK_MAX_SIZE, len)
    ELSE SplitFrom(free_block_size, len)

\* how many times make_records_from_buf(free_block_size, _) calls itself
RECURSIVE Recursions(_)
Recursions(free_block_size) ==
    IF free_block_size >= 0 /\ free_block_size < RECORD_EXTRA_SIZE
    THEN 1 + Recursions(BLOCK_MAX_SIZE)
    ELSE 0

\* -------------------------------------------------------------- wal.rs
\* A Wal value w is [used, current_block_used, file]; file is the sequence of
\* the segments the file accepted, each [off, typ, len]: a record of payload
\* length len (7 + len bytes), or typ "Trailer" (len zero bytes).
SegBytes(seg) == IF seg.typ = "Trailer" THEN seg.len ELSE RECORD_EXTRA_SIZE + seg.len

\* the length of the file: where the next accepted byte goes
FileLen(f) ==
    IF f = << >> THEN 0 ELSE f[Len(f)].off + SegBytes(f[Len(f)])

\* Wal::new: a truncated file, both counters zero
Wal_new == [used |-> 0, current_block_used |-> 0, file |-> << >>]

\* free_space(): WAL_LOG_MAX_SIZE - self.used (negative: wrapped)
free_space(w) == WAL_LOG_MAX_SIZE - w.used

\* current_block_free_space(): BLOCK_MAX_SIZE - self.current_block_used
current_block_free_space(w) == BLOCK_MAX_SIZE - w.current_block_used

\* a usize subtraction whose result d wrapped aborts a build with overflow checks
SubPanics(chk, d) == chk /\ d < 0

\* A write that forgets the per-block counter.
Wal_write_used_only(w, typ, len, s) ==
    [used |-> w.used + s,
     current_block_used |-> w.current_block_used,
     file |-> Append(w.file, [off |-> FileLen(w.file), typ |-> typ, len |-> len])]

\* impl Write for Wal, under write_all: the file accepts the s bytes of one
\* segment and both counters grow by s
Wal_write(w, typ, len, s) ==
    [used |-> w.used + s,
     current_block_used |-> w.current_block_used + s,
     file |-> Append(w.file, [off |-> FileLen(w.file), typ |-> typ, len |-> len])]

\* Record::write_to(self): header and payload, through Wal::write
write_to(w, r) == Wal_write(w, r.typ, DataLen(r), WireLen(r))

\* write_trailer: vec![0; current_block_free_space()] then write_all.
\* A wrapped length cannot be allocated: the process aborts.
write_trailer(w, chk) ==
    LET n == current_block_free_space(w) IN
    IF n < 0 THEN [w |-> w, st |-> "Panic"]
    ELSE IF n = 0 THEN [w |-> w, st |-> "Ok"]
    ELSE [w |-> Wal_write(w, "Trailer", n, n), st |-> "Ok"]

\* new_block: WriteZero when the file is full, else the block counter restarts
new_block(w, chk) ==
    IF SubPanics(chk, free_space(w)) THEN [w |-> w, st |-> "Panic"]
    ELSE IF free_space(w) = 0 THEN [w |-> w, st |-> "WriteZero"]
    ELSE [w |-> [w EXCEPT !.current_block_used = 0], st |-> "Ok"]

\* A write_record that never pads the block's remainder.
write_record_no_trailer(w, r, chk) ==
    LET b == IF current_block_free_space(w) = 0
             THEN new_block(w, chk) ELSE [w |-> w, st |-> "Ok"]
    IN IF b.st # "Ok" THEN b ELSE [w |-> write_to(b.w, r), st |-> "Ok"]

\* write_record: pad a remainder of 1..BLOCK_MIN_FREE_SIZE bytes, start a new
\* block when the current one is full, then write the record
write_record(w, r, chk) ==
    IF SubPanics(chk, current_block_free_space(w)) THEN [w |-> w, st |-> "Panic"]
    ELSE
      LET t == IF current_block_free_space(w) > 0
                  /\ current_block_free_space(w) <= BLOCK_MIN_FREE_SIZE
               THEN write_trailer(w, chk) ELSE [w |-> w, st |-> "Ok"]
          b == IF current_block_free_space(t.w) = 0
               THEN new_block(t.w, chk) ELSE [w |-> t.w, st |-> "Ok"]
      IN IF t.st # "Ok" THEN t
         ELSE IF b.st # "Ok" THEN b
         ELSE [w |-> write_to(b.w, r), st |-> "Ok"]

\* iter.collect() after the break: iter.next() has already taken record i
LeftAfter(records, i) == SubSeq(records, i + 1, Len(records))

\* the while-let loop of write_records over records[lo..hi], in order: the Wal
\* after it, how it ended (Ok: all written; WriteZero or Panic at the first
\* record that met one) and n, the index of the last record written
RECURSIVE WriteLoop(_, _, _, _, _)
WriteLoop(w, records, lo, hi, chk) ==
    IF lo > hi THEN [w |-> w, st |-> "Ok", n |-> hi]
    ELSE IF lo = hi
    THEN LET res == write_record(w, records[lo], chk)
         IN [w |-> res.w, st |-> res.st, n |-> IF res.st = "Ok" THEN lo ELSE lo - 1]
    ELSE LET mid == (lo + hi) \div 2
             a == WriteLoop(w, records, lo, mid, chk)
         IN IF a.st # "Ok" THEN a ELSE WriteLoop(a.w, records, mid + 1, hi, chk)

\* A write_records without the early return for a full file.
write_records_no_full_return(w, records, chk) ==
    LET l == WriteLoop(w, records, 1, Len(records), chk) IN
    IF l.st = "Panic" THEN [w |-> l.w, ret |-> "Panic", left |-> << >>]
    ELSE IF l.st = "WriteZero"
    THEN [w |-> l.w, ret |-> "Ok", left |-> LeftAfter(records, l.n + 1)]
    ELSE [w |-> l.w, ret |-> "Ok", left |-> << >>]

\* write_records(records): the Wal after the call and what it returns: ret,
\* and left when ret is Ok
write_records(w, records, chk) ==
    IF SubPanics(chk, free_space(w))
    THEN [w |-> w, ret |-> "Panic", left |-> << >>]
    ELSE
      LET t == IF free_space(w) > 0 /\ free_space(w) <= BLOCK_MIN_FREE_SIZE
               THEN write_trailer(w, chk) ELSE [w |-> w, st |-> "Ok"]
          l == WriteLoop(t.w, records, 1, Len(records), chk)
      IN IF t.st # "Ok"
         THEN [w |-> t.w, ret |-> "Panic", left |-> << >>]
         ELSE IF free_space(t.w) = 0
         THEN [w |-> t.w, ret |-> "Ok", left |-> records]
         ELSE IF l.st = "Panic"
         THEN [w |-> l.w, ret |-> "Panic", left |-> << >>]
         ELSE IF l.st = "WriteZero"
         THEN [w |-> l.w, ret |-> "Ok", left |-> LeftAfter(records, l.n + 1)]
         ELSE [w |-> l.w, ret |-> "Ok", left |-> << >>]

\* make_records(buf): the split for the current block's free space
make_records(w, len) == make_records_from_buf(current_block_free_space(w), len)

\* --------------------------------------------------------- memtable.rs
\* Option<T>: None is the empty sequence, Some(v) is << v >>.
None == << >>
Some(v) == << v >>

\* Ord for Vec<u8>: lexicographic, a proper prefix first
RECURSIVE KeyLess(_, _)
KeyLess(a, b) ==
    IF a = << >> THEN b # << >>
    ELSE IF b = << >> THEN FALSE
    ELSE IF a[1] # b[1] THEN a[1] < b[1]
    ELSE KeyLess(Tail(a), Tail(b))

\* A BTreeMap<Key, Value> m is the sequence of its entries [key, value] in the
\* order its iterator yields them.
HasKey(m, key) == \E i \in 1..Len(m) : m[i].key = key

\* An insert that keeps the old value of a key already present.
BTreeMap_insert_keep_old(m, key, value) ==
    IF HasKey(m, key) THEN m
    ELSE LET n == Cardinality({i \in 1..Len(m) : KeyLess(m[i].key, key)})
         IN SubSeq(m, 1, n) \o << [key |-> key, value |-> value] >>
            \o SubSeq(m, n + 1, Len(m))

\* BTreeMap::insert: the value of a present key is replaced, a new key takes
\* its place in key order
BTreeMap_insert(m, key, value) ==
    IF HasKey(m, key)
    THEN [i \in 1..Len(m) |->
            IF m[i].key = key THEN [key |-> key, value |-> value] ELSE m[i]]
    ELSE LET n == Cardinality({i \in 1..Len(m) : KeyLess(m[i].key, key)})
         IN SubSeq(m, 1, n) \o << [key |-> key, value |-> value] >>
            \o SubSeq(m, n + 1, Len(m))

\* BTreeMap::get(key).cloned()
BTreeMap_get(m, key) ==
    IF HasKey(m, key)
    THEN Some((CHOOSE e \in {m[i] : i \in 1..Len(m)} : e.key = key).value)
    ELSE None

\* A MemTable value t is [map, max_size, size].
MemTable_new(ms) == [map |-> << >>, max_size |-> ms, size |-> 0]

\* A threshold test that is strict.
is_threshold_reached_strict(t) == t.size > t.max_size

\* is_threshold_reached: self.size >= self.max_size
is_threshold_reached(t) == t.size >= t.max_size

\* A guard that lets the tombstone marker through as a key.
SetRejectsNoKey(t, key) == is_threshold_reached(t)

\* the two ensure! guards of set: which calls fail
SetRejects(t, key) == key = TOMBSTONE \/ is_threshold_reached(t)

\* A size counter that is not charged again for a key already present.
SizeAfterLive(t, key, value) ==
    IF HasKey(t.map, key) THEN t.size ELSE t.size + Len(key) + Len(value)

\* self.size += key_size + value_size
SizeAfter(t, key, value) == t.size + Len(key) + Len(value)

\* MemTable::set: the table after the call and what the call returns
MemTable_set(t, key, value) ==
    IF SetRejects(t, key) THEN [t |-> t, ret |-> "Err"]
    ELSE LET u == [map |-> BTreeMap_insert(t.map, key, value),
                   max_size |-> t.max_size,
                   size |-> SizeAfter(t, key, value)]
         IN [t |-> u,
             ret |-> IF is_threshold_reached(u)
                     THEN "ThresholdReached" ELSE "AvailableSpace"]

\* MemTable::get
MemTable_get(t, key) == BTreeMap_get(t.map, key)

\* A remove that takes the key out of the map.
MemTable_remove_hard(t, key) ==
    IF SetRejects(t, key) THEN [t |-> t, ret |-> "Err"]
    ELSE [t |-> [t EXCEPT !.map = SelectSeq(t.map, LAMBDA e : e.key # key)],
          ret |-> "AvailableSpace"]

\* MemTable::remove: self.set(key, TOMBSTONE.to_vec())
MemTable_remove(t, key) == MemTable_set(t, key, TOMBSTONE)

\* A conversion that takes the map but drops the entries marked deleted.
ImmutableMemtable_from_live(t) ==
    [map |-> SelectSeq(t.map, LAMBDA e : e.value # TOMBSTONE),
     max_size |-> t.max_size, size |-> t.size]

\* impl From<MemTable> for ImmutableMemtable
ImmutableMemtable_from(t) ==
    [map |-> t.map, max_size |-> t.max_size, size |-> t.size]

\* ImmutableMemtable::get
ImmutableMemtable_get(im, key) == BTreeMap_get(im.map, key)

\* ImmutableMemtable::iter: the entries as (key, value) pairs, in map order
ImmutableMemtable_iter(im) == [i \in 1..Len(im.map) |-> << im.map[i].key, im.map[i].value >>]

\* ---------------------------------------------------------------- state
VARIABLES
    used,                \* Wal.used
    current_block_used,  \* Wal.current_block_used
    file,                \* the segments Wal.file has accepted since it was opened
    overflow_checks,     \* whether the build checks usize arithmetic
    pending,             \* the Vec<Record> the Wal's caller holds
    wpc,                 \* where the Wal's caller is
    call,                \* the last write_records call: its input, the segments
                         \* it added to the file, what it returned, and the
                         \* Wal's counters before and after it
    bufs,                \* buffers handed to make_records so far
    writes,              \* write_records calls so far
    map,                 \* MemTable.map
    max_size,            \* MemTable.max_size
    size,                \* MemTable.size
    moved,               \* the MemTable has been consumed by From
    immutable,           \* the ImmutableMemtable made from it, once made
    hist,                \* the set/remove calls so far: op, key, value, the size
                         \* before the call, ret
    ever_reached,        \* is_threshold_reached() has been true of this MemTable
    free_block_size,     \* argument of a direct make_records_from_buf call
    buf_len,             \* length of the buffer of that call
    made                 \* what that call returned, once it has

walVars ==
    << used, current_block_used, file, overflow_checks, pending, wpc, call, bufs,
       writes >>
memVars == << map, max_size, size, moved, immutable, hist, ever_reached >>
codecVars == << free_block_size, buf_len, made >>
vars == << walVars, memVars, codecVars >>

\* ---------------------------------------------------------------- bounds
MaxBufs == 3
MaxWrites == 3
MaxOps == 3
MaxSmall == 8
MaxSpan == 3
MaxDelta == 2

\* buffer lengths handed to Wal::make_records: empty, the 1000 bytes of
\* test_write_wal, one that leaves exactly a header's room in a block, one
\* that leaves less, one block, all but one block of the log, and the 5 MiB of
\* test_write_wal_overflow
BufLens ==
    {0, 1000,
     BLOCK_MAX_SIZE - 2 * RECORD_EXTRA_SIZE,
     BLOCK_MAX_SIZE - RECORD_EXTRA_SIZE - 3,
     BLOCK_MAX_SIZE - RECORD_EXTRA_SIZE,
     (WAL_LOG_MAX_SIZE \div BLOCK_MAX_SIZE - 1) * (BLOCK_MAX_SIZE - RECORD_EXTRA_SIZE),
     5 * 1024 * 1024}

\* buffer lengths handed to make_records by a caller that keeps no protocol:
\* one that leaves 3 bytes of a block, and all but one block of the log
AnyBufLens ==
    {BLOCK_MAX_SIZE - RECORD_EXTRA_SIZE - 3,
     (WAL_LOG_MAX_SIZE \div BLOCK_MAX_SIZE - 1) * (BLOCK_MAX_SIZE - RECORD_EXTRA_SIZE)}

\* record lists such a caller builds itself: none, and one Full record of the
\* largest payload Record::new accepts
AnyRecords == {<< >>, << Record_new("Full", 0, U16_MAX - 1) >>}

\* keys and values handed to the MemTable, and its budgets
Keys == {<< 2 >>, << 1, 2 >>, << 1 >>, TOMBSTONE}
Values == {<< >>, << 9, 9, 9 >>}
MaxSizes == {0, 2, 5, 10}

\* arguments of direct make_records_from_buf calls
FreeSizes ==
    (0..MaxSmall) \cup {10, 100} \cup {BLOCK_MAX_SIZE - d : d \in 0..MaxSmall}
CodecLens ==
    (0..MaxSmall) \cup {1000}
    \cup {k * (BLOCK_MAX_SIZE - RECORD_EXTRA_SIZE) + d :
            k \in 1..MaxSpan, d \in (0 - MaxDelta)..MaxDelta}

\* ------------------------------------------------------- the Wal's caller
NoCall ==
    [input |-> << >>, written |-> << >>, left |-> << >>, ret |-> "None",
     used0 |-> 0, block0 |-> 0, used1 |-> 0, block1 |-> 0]

\* the call wal.write_records(records) on the Wal w0 that ended as res
CallOf(w0, records, res) ==
    [input |-> records,
     written |-> SubSeq(res.w.file, Len(w0.file) + 1, Len(res.w.file)),
     left |-> res.left, ret |-> res.ret,
     used0 |-> w0.used, block0 |-> w0.current_block_used,
     used1 |-> res.w.used, block1 |-> res.w.current_block_used]

TheWal == [used |-> used, current_block_used |-> current_block_used, file |-> file]

WalInit ==
    /\ used = Wal_new.used
    /\ current_block_used = Wal_new.current_block_used
    /\ file = Wal_new.file
    /\ pending = << >>
    /\ wpc = "idle"
    /\ call = NoCall
    /\ bufs = 0
    /\ writes = 0

\* let records = wal.make_records(&buf)
MakeRecords(len) ==
    /\ wpc = "idle"
    /\ bufs < MaxBufs
    /\ bufs' = bufs + 1
    /\ LET panics == SubPanics(overflow_checks, current_block_free_space(TheWal))
                     \/ \E i \in 1..Len(make_records(TheWal, len)) :
                            RecordNewPanics(make_records(TheWal, len)[i])
       IN /\ pending' = IF panics THEN << >> ELSE make_records(TheWal, len)
          /\ wpc' = IF panics THEN "panicked" ELSE "made"
    /\ UNCHANGED << used, current_block_used, file, overflow_checks, call, writes >>
    /\ UNCHANGED << memVars, codecVars >>

\* let ret = wal.write_records(records), of the records just made or of the
\* remainder a full Wal returned, on the Wal opened for it
WriteRecords ==
    /\ wpc \in {"made", "resubmit"}
    /\ LET res == write_records(TheWal, pending, overflow_checks) IN
        /\ used' = res.w.used
        /\ current_block_used' = res.w.current_block_used
        /\ file' = res.w.file
        /\ call' = CallOf(TheWal, pending, res)
        /\ pending' = res.left
        /\ wpc' = IF res.ret = "Panic" THEN "panicked"
                  ELSE IF res.left # << >> THEN "left" ELSE "idle"
    /\ writes' = writes + 1
    /\ UNCHANGED << overflow_checks, bufs >>
    /\ UNCHANGED << memVars, codecVars >>

\* the caller opens the next log file for the remainder: Wal::new
Reopen ==
    /\ wpc = "left"
    /\ used' = Wal_new.used
    /\ current_block_used' = Wal_new.current_block_used
    /\ file' = Wal_new.file
    /\ wpc' = "resubmit"
    /\ UNCHANGED << overflow_checks, pending, call, bufs, writes >>
    /\ UNCHANGED << memVars, codecVars >>

\* ---------------------------------- a caller of the Wal without protocol
\* wal.make_records(&buf) at any time; the caller keeps the records
AnyMake(len) ==
    /\ wpc = "idle"
    /\ LET panics == SubPanics(overflow_checks, current_block_free_space(TheWal))
                     \/ \E i \in 1..Len(make_records(TheWal, len)) :
                            RecordNewPanics(make_records(TheWal, len)[i])
       IN /\ pending' = IF panics THEN pending ELSE make_records(TheWal, len)
          /\ wpc' = IF panics THEN "panicked" ELSE "idle"
    /\ UNCHANGED << used, current_block_used, file, overflow_checks, call, bufs,
                    writes >>
    /\ UNCHANGED << memVars, codecVars >>

\* wal.write_records(records) of any records
AnyWrite(records) ==
    /\ wpc = "idle"
    /\ writes < MaxWrites
    /\ writes' = writes + 1
    /\ LET res == write_records(TheWal, records, overflow_checks) IN
        /\ used' = res.w.used
        /\ current_block_used' = res.w.current_block_used
        /\ file' = res.w.file
        /\ call' = CallOf(TheWal, records, res)
        /\ wpc' = IF res.ret = "Panic" THEN "panicked" ELSE "idle"
    /\ UNCHANGED << overflow_checks, pending, bufs >>
    /\ UNCHANGED << memVars, codecVars >>

\* wal.write_records of records the caller built itself
AnyWriteOwn == \E records \in AnyRecords : AnyWrite(records)

\* wal.write_records of a copy of the records make_records gave the caller,
\* however long ago
AnyWriteMade == AnyWrite(pending)

\* ------------------------------------------------- the MemTable's caller
TheMemTable == [map |-> map, max_size |-> max_size, size |-> size]

MemIdle ==
    /\ map = << >>
    /\ max_size = 0
    /\ size = 0
    /\ moved = FALSE
    /\ immutable = None
    /\ hist = << >>
    /\ ever_reached = TRUE

\* MemTable::new(max_size)
MemInit ==
    /\ max_size \in MaxSizes
    /\ map = MemTable_new(max_size).map
    /\ size = MemTable_new(max_size).size
    /\ moved = FALSE
    /\ immutable = None
    /\ hist = << >>
    /\ ever_reached = is_threshold_reached(MemTable_new(max_size))

\* memtable.set(key, value)
Set(key, value) ==
    /\ ~moved
    /\ Len(hist) < MaxOps
    /\ LET res == MemTable_set(TheMemTable, key, value) IN
        /\ map' = res.t.map
        /\ size' = res.t.size
        /\ hist' = Append(hist, [op |-> "set", key |-> key, value |-> value,
                                 before |-> size, ret |-> res.ret])
        /\ ever_reached' = (ever_reached \/ is_threshold_reached(res.t))
    /\ UNCHANGED << max_size, moved, immutable >>
    /\ UNCHANGED << walVars, codecVars >>

\* memtable.remove(key)
Remove(key) ==
    /\ ~moved
    /\ Len(hist) < MaxOps
    /\ LET res == MemTable_remove(TheMemTable, key) IN
        /\ map' = res.t.map
        /\ size' = res.t.size
        /\ hist' = Append(hist, [op |-> "remove", key |-> key, value |-> TOMBSTONE,
                                 before |-> size, ret |-> res.ret])
        /\ ever_reached' = (ever_reached \/ is_threshold_reached(res.t))
    /\ UNCHANGED << max_size, moved, immutable >>
    /\ UNCHANGED << walVars, codecVars >>

\* let immutable: ImmutableMemtable = memtable.into()
Freeze ==
    /\ ~moved
    /\ moved' = TRUE
    /\ immutable' = Some(ImmutableMemtable_from(TheMemTable))
    /\ UNCHANGED << map, max_size, size, hist, ever_reached >>
    /\ UNCHANGED << walVars, codecVars >>

\* ------------------------------------- make_records_from_buf, called directly
CodecIdle ==
    /\ free_block_size = 0
    /\ buf_len = 0
    /\ made = None

CodecInit ==
    /\ free_block_size \in FreeSizes
    /\ buf_len \in CodecLens
    /\ made = None

MakeFromBuf ==
    /\ made = None
    /\ made' = Some(make_records_from_buf(free_block_size, buf_len))
    /\ UNCHANGED << free_block_size, buf_len >>
    /\ UNCHANGED << walVars, memVars >>

\* -------------------------------------------------------- specifications
\* the Wal under its single-owner protocol
Init == WalInit /\ overflow_checks \in BOOLEAN /\ MemIdle /\ CodecIdle
Next ==
    \/ \E len \in BufLens : MakeRecords(len)
    \/ WriteRecords
    \/ Reopen
Spec == Init /\ [][Next]_vars

\* the Wal under any sequence of make_records and write_records calls
NextAny ==
    \/ \E len \in AnyBufLens : AnyMake(len)
    \/ AnyWriteOwn
    \/ AnyWriteMade
SpecAny == Init /\ [][NextAny]_vars

\* the MemTable
InitMemTable == WalInit /\ overflow_checks = FALSE /\ MemInit /\ CodecIdle
NextMemTable ==
    \/ \E key \in Keys, value \in Values : Set(key, value)
    \/ \E key \in Keys : Remove(key)
    \/ Freeze
SpecMemTable == InitMemTable /\ [][NextMemTable]_vars

\* the record codec
InitCodec == WalInit /\ overflow_checks = FALSE /\ MemIdle /\ CodecInit
NextCodec == MakeFromBuf
SpecCodec == InitCodec /\ [][NextCodec]_vars

\* ------------------------------------------------------- claims: the Wal
\* the records among the segments a call added to the file
RecordSegs(segs) == SelectSeq(segs, LAMBDA seg : seg.typ # "Trailer")

\* segment seg is record r, written
SegIsRecord(seg, r) == seg.typ = r.typ /\ seg.len = DataLen(r)

\* C1: a write_records call that returns Ok(left) loses no record: the records
\* it wrote to the file, in order, followed by left, are its input.
C1_NoRecordLost ==
    call.ret = "Ok" =>
        LET w == RecordSegs(call.written) IN
        /\ Len(w) + Len(call.left) = Len(call.input)
        /\ \A i \in 1..Len(w) : SegIsRecord(w[i], call.input[i])
        /\ \A j \in 1..Len(call.left) : call.left[j] = call.input[Len(w) + j]

\* C2: under the protocol (write_records gets what make_records just returned,
\* or the remainder of a full Wal on a freshly opened one) used stays within
\* WAL_LOG_MAX_SIZE and current_block_used within BLOCK_MAX_SIZE, so neither
\* free_space() nor current_block_free_space() underflows.
C2_CountersBounded ==
    /\ used <= WAL_LOG_MAX_SIZE
    /\ current_block_used <= BLOCK_MAX_SIZE
    /\ free_space(TheWal) >= 0
    /\ current_block_free_space(TheWal) >= 0
    /\ wpc # "panicked"

\* C2 witness: a call filled the log to its last byte and handed records back
C2_Witness ==
    /\ used = WAL_LOG_MAX_SIZE
    /\ current_block_used = BLOCK_MAX_SIZE
    /\ call.ret = "Ok"
    /\ call.written # << >>
    /\ call.left # << >>

\* C3: under the protocol every record in the file lies inside one block: at
\* offset s with payload n, (s mod BLOCK_MAX_SIZE) + 7 + n <= BLOCK_MAX_SIZE, so
\* none starts in a block remainder of fewer than 7 bytes; what lies in such a
\* remainder is a trailer of zero bytes that ends the block.
C3_RecordsInsideBlocks ==
    \A i \in 1..Len(file) :
        LET seg == file[i]
            room == BLOCK_MAX_SIZE - (seg.off % BLOCK_MAX_SIZE)
        IN /\ seg.typ # "Trailer" =>
                /\ (seg.off % BLOCK_MAX_SIZE) + RECORD_EXTRA_SIZE + seg.len
                      <= BLOCK_MAX_SIZE
                /\ room >= RECORD_EXTRA_SIZE
           /\ room < RECORD_EXTRA_SIZE => seg.typ = "Trailer"
           /\ seg.typ = "Trailer" =>
                /\ seg.len = room
                /\ seg.len <= BLOCK_MIN_FREE_SIZE

\* C3 witness: a trailer pads a block, the next record starts the next block,
\* and a First record has filled a block to its last byte
C3_Witness ==
    /\ \E i \in 1..(Len(file) - 1) :
          /\ file[i].typ = "Trailer"
          /\ file[i + 1].typ # "Trailer"
          /\ file[i + 1].off % BLOCK_MAX_SIZE = 0
    /\ \E i \in 1..Len(file) :
          /\ file[i].typ = "First"
          /\ file[i].off % BLOCK_MAX_SIZE # 0
          /\ (file[i].off + SegBytes(file[i])) % BLOCK_MAX_SIZE = 0

\* ----------------------------------------------------- claims: the codec
\* the payloads of records, concatenated in order, are the buffer of length
\* len: slice after slice, from its first byte to its last
Reassembles(records, len) ==
    /\ records # << >>
    /\ records[1].lo = 0
    /\ records[Len(records)].hi = len
    /\ \A i \in 1..Len(records) : records[i].lo <= records[i].hi
    /\ \A i \in 1..(Len(records) - 1) : records[i].hi = records[i + 1].lo

\* the types are [Full], [First, Last] or [First, Middle*, Last]
WellTyped(records) ==
    \/ Len(records) = 1 /\ records[1].typ = "Full"
    \/ /\ Len(records) >= 2
       /\ records[1].typ = "First"
       /\ records[Len(records)].typ = "Last"
       /\ \A i \in 2..(Len(records) - 1) : records[i].typ = "Middle"

\* C4: for every buffer and every free-block size in 0..BLOCK_MAX_SIZE the
\* payloads of make_records_from_buf, in order, reproduce the buffer, and the
\* types are [Full], [First, Last] or [First, Middle*, Last].
C4_RoundTripFraming ==
    made # None => Reassembles(made[1], buf_len) /\ WellTyped(made[1])

\* C4 witness: a split with Middle records, from a block that was partly used
C4_Witness ==
    /\ made # None
    /\ Len(made[1]) >= 4
    /\ free_block_size > RECORD_EXTRA_SIZE
    /\ free_block_size < BLOCK_MAX_SIZE

\* -------------------------------------------------- claims: the MemTable
\* call i of hist succeeded
Succeeded(i) == hist[i].ret # "Err"

\* key+value bytes of call i
CallBytes(i) == Len(hist[i].key) + Len(hist[i].value)

\* key+value bytes of the calls among the first n that are in the set S of
\* indices
RECURSIVE BytesOf(_, _)
BytesOf(S, n) ==
    IF n = 0 THEN 0
    ELSE BytesOf(S, n - 1) + (IF n \in S THEN CallBytes(n) ELSE 0)

SetCalls == {i \in 1..Len(hist) : hist[i].op = "set"}
SuccessfulCalls == {i \in 1..Len(hist) : Succeeded(i)}

\* what the most recent successful set/remove for key gave it, if any did
Latest(key) ==
    LET S == {i \in SuccessfulCalls : hist[i].key = key} IN
    IF S = {} THEN None
    ELSE Some(hist[CHOOSE i \in S : \A j \in S : j <= i].value)

\* every further set fails
NextSetFails ==
    \A key \in Keys, value \in Values :
        MemTable_set(TheMemTable, key, value).ret = "Err"

\* C5 as claimed: once the key+value bytes of the set calls made reach
\* max_size the threshold is reached and the next set fails; once reached it
\* stays reached.
C5_AsClaimed ==
    /\ BytesOf(SetCalls, Len(hist)) >= max_size =>
          is_threshold_reached(TheMemTable) /\ NextSetFails
    /\ ever_reached => is_threshold_reached(TheMemTable)

\* C5 amended: once the key+value bytes of the set calls that succeeded reach
\* max_size the threshold is reached and the next set fails; once reached it
\* stays reached.
C5_SuccessfulBytesReachThreshold ==
    /\ BytesOf(SetCalls \cap SuccessfulCalls, Len(hist)) >= max_size =>
          is_threshold_reached(TheMemTable) /\ NextSetFails
    /\ ever_reached => is_threshold_reached(TheMemTable)

\* C5 witness: successful sets took a positive budget to exactly its limit and
\* a later set of an ordinary key failed
C5_Witness ==
    /\ max_size > 0
    /\ BytesOf(SetCalls \cap SuccessfulCalls, Len(hist)) = max_size
    /\ Len(hist) >= 2
    /\ hist[Len(hist)].op = "set"
    /\ hist[Len(hist)].key # TOMBSTONE
    /\ hist[Len(hist)].ret = "Err"

\* C6: get(k) is the value of the most recent successful set/remove for k and
\* absent if none succeeded; failed calls change no get.
C6_GetReturnsLatest ==
    \A key \in Keys : MemTable_get(TheMemTable, key) = Latest(key)

\* C6 witness: a key was set, overwritten, and then a call for it failed
C6_Witness ==
    /\ Len(hist) = 3
    /\ hist[1].key = hist[2].key
    /\ hist[2].key = hist[3].key
    /\ Succeeded(1)
    /\ Succeeded(2)
    /\ ~Succeeded(3)
    /\ hist[1].value # hist[2].value
    /\ hist[3].value # hist[2].value

\* C7: a set fails exactly when its key is the tombstone marker or the budget
\* was exhausted before the call (size >= max_size); otherwise it succeeds,
\* also when it takes size past max_size.
C7_SetFailsExactlyWhen ==
    \A i \in 1..Len(hist) :
        hist[i].op = "set" =>
            (hist[i].ret = "Err"
               <=> (hist[i].key = TOMBSTONE \/ hist[i].before >= max_size))

\* C7 witness: a set succeeded that took size past max_size
C7_Witness ==
    \E i \in 1..Len(hist) :
        /\ hist[i].op = "set"
        /\ Succeeded(i)
        /\ hist[i].before < max_size
        /\ hist[i].before + CallBytes(i) > max_size

\* C8: size is the sum of len(key) + len(value) over the successful set/remove
\* calls, overwrites included, and a successful call returns ThresholdReached
\* exactly if that sum is then >= max_size.
C8_SizeIsSumOfSuccessfulCalls ==
    /\ size = BytesOf(SuccessfulCalls, Len(hist))
    /\ \A i \in SuccessfulCalls :
          hist[i].ret = (IF BytesOf(SuccessfulCalls, i) >= max_size
                         THEN "ThresholdReached" ELSE "AvailableSpace")

\* C8 witness: two successful sets of one key, the second reaching the threshold
C8_Witness ==
    /\ Len(hist) >= 2
    /\ hist[1].key = hist[2].key
    /\ hist[1].ret = "AvailableSpace"
    /\ hist[2].ret = "ThresholdReached"
    /\ Len(map) = 1

\* the last call was remove(k)
LastIsRemove == Len(hist) > 0 /\ hist[Len(hist)].op = "remove"

\* C9 as claimed: in every state and for every key k, get(k) after remove(k)
\* is the tombstone marker.
C9_AsClaimed ==
    LastIsRemove =>
        MemTable_get(TheMemTable, hist[Len(hist)].key) = Some(TOMBSTONE)

\* C9 amended: for every key k other than the tombstone marker, in every state
\* whose threshold is not reached, remove(k) succeeds and get(k) after it is
\* the tombstone marker.
C9_RemoveThenGet ==
    (/\ LastIsRemove
     /\ hist[Len(hist)].key # TOMBSTONE
     /\ hist[Len(hist)].before < max_size) =>
        /\ Succeeded(Len(hist))
        /\ MemTable_get(TheMemTable, hist[Len(hist)].key) = Some(TOMBSTONE)

\* C9 witness: a key that held a value was removed
C9_Witness ==
    /\ Len(hist) >= 2
    /\ LastIsRemove
    /\ Succeeded(Len(hist))
    /\ \E i \in SetCalls \cap SuccessfulCalls :
          /\ hist[i].key = hist[Len(hist)].key
          /\ hist[i].value # TOMBSTONE

\* the keys that have an entry
LiveKeys == {key \in Keys : Latest(key) # None}

\* C10: the ImmutableMemtable made from a MemTable yields by iter() the
\* MemTable's entries, one per key with its latest value, in strictly ascending
\* key order, and its get(k) is the MemTable's get(k) from before the freeze
\* (map keeps what the MemTable held when it was consumed).
C10_FreezeFidelity ==
    moved =>
        LET it == ImmutableMemtable_iter(immutable[1]) IN
        /\ \A i \in 1..(Len(it) - 1) : KeyLess(it[i][1], it[i + 1][1])
        /\ {it[i] : i \in 1..Len(it)}
              = {<< key, Latest(key)[1] >> : key \in LiveKeys}
        /\ \A key \in Keys :
              ImmutableMemtable_get(immutable[1], key)
                 = MemTable_get(TheMemTable, key)

\* C10 witness: a frozen table of several keys, inserted out of key order, one
\* of them removed
C10_Witness ==
    /\ moved
    /\ Len(immutable[1].map) >= 2
    /\ Len(hist) >= 3
    /\ KeyLess(hist[2].key, hist[1].key)
    /\ LastIsRemove
    /\ Succeeded(Len(hist))

\* ---------------------------------------------- further claims: the Wal
\* 7 + payload length, summed over records[lo..hi]
RECURSIVE RecordBytes(_, _, _)
RecordBytes(records, lo, hi) ==
    IF lo > hi THEN 0
    ELSE IF lo = hi THEN RECORD_EXTRA_SIZE + DataLen(records[lo])
    ELSE RecordBytes(records, lo, (lo + hi) \div 2)
         + RecordBytes(records, (lo + hi) \div 2 + 1, hi)

\* the trailer a call has to write first: the rest of the block it found, when
\* that is 1..BLOCK_MIN_FREE_SIZE bytes
TrailerBefore ==
    IF BLOCK_MAX_SIZE - call.block0 > 0
       /\ BLOCK_MAX_SIZE - call.block0 <= BLOCK_MIN_FREE_SIZE
    THEN BLOCK_MAX_SIZE - call.block0 ELSE 0

\* C11: write_records on a Wal with zero free space returns Ok with its whole
\* input, writes no byte and leaves used and current_block_used as they were.
C11_FullFileReturnsInput ==
    (call.ret # "None" /\ call.used0 = WAL_LOG_MAX_SIZE) =>
        /\ call.ret = "Ok"
        /\ call.left = call.input
        /\ call.written = << >>
        /\ call.used1 = call.used0
        /\ call.block1 = call.block0

\* C11 witness: a call with records to write found the file full
C11_Witness ==
    /\ call.ret = "Ok"
    /\ call.used0 = WAL_LOG_MAX_SIZE
    /\ Len(call.input) >= 2

\* C12: when the file has room for the trailer due and for all the records
\* make_records gave, write_records returns Ok with nothing left, the records
\* are appended in order and used grows by the trailer plus 7 + payload length
\* for each record.
C12_AllWrittenWhenRoom ==
    (/\ call.ret # "None"
     /\ call.used0 + TrailerBefore + RecordBytes(call.input, 1, Len(call.input))
           <= WAL_LOG_MAX_SIZE) =>
        /\ call.ret = "Ok"
        /\ call.left = << >>
        /\ Len(RecordSegs(call.written)) = Len(call.input)
        /\ \A i \in 1..Len(call.input) :
              SegIsRecord(RecordSegs(call.written)[i], call.input[i])
        /\ call.used1 = call.used0 + TrailerBefore
                           + RecordBytes(call.input, 1, Len(call.input))

\* C12 witness: a call padded the block it found and wrote a split buffer whole
C12_Witness ==
    /\ call.ret = "Ok"
    /\ TrailerBefore > 0
    /\ Len(call.input) >= 3
    /\ call.left = << >>
    /\ call.used1 > call.used0

\* the 5 MiB buffer of test_write_wal_overflow
OverflowBuf == 5 * 1024 * 1024

\* a fresh Wal has made the records of the 5 MiB buffer
MadeOverflowBuf ==
    /\ wpc = "made"
    /\ used = 0
    /\ file = << >>
    /\ pending[Len(pending)].hi = OverflowBuf

\* the last call wrote those records to the fresh Wal
WroteOverflowBuf ==
    /\ call.ret # "None"
    /\ call.used0 = 0
    /\ call.input # << >>
    /\ call.input[1].lo = 0
    /\ call.input[Len(call.input)].hi = OverflowBuf

Made == made[1]

\* C13 as claimed: every record make_records_from_buf emits has a payload
\* length that is strictly positive and strictly less than 65535.
C13_AsClaimed ==
    made # None =>
        \A i \in 1..Len(Made) : DataLen(Made[i]) > 0 /\ DataLen(Made[i]) < U16_MAX

\* C13 amended: every record emitted has a payload of at most
\* BLOCK_MAX_SIZE - 7 bytes, less than 65535, so that Record::new's assertion
\* never fires; the payload is empty exactly for the Full record of an empty
\* buffer and for the First record when the free-block size is 7.
C13_PayloadLengths ==
    made # None =>
        \A i \in 1..Len(Made) :
            /\ DataLen(Made[i]) >= 0
            /\ DataLen(Made[i]) <= BLOCK_MAX_SIZE - RECORD_EXTRA_SIZE
            /\ DataLen(Made[i]) < U16_MAX
            /\ ~RecordNewPanics(Made[i])
            /\ DataLen(Made[i]) = 0 <=>
                  \/ Made[i].typ = "Full" /\ buf_len = 0
                  \/ Made[i].typ = "First" /\ free_block_size = RECORD_EXTRA_SIZE

\* C13 witness: a First record without payload, before Middle and Last records
C13_Witness ==
    /\ made # None
    /\ Len(Made) >= 3
    /\ Made[1].typ = "First"
    /\ DataLen(Made[1]) = 0

\* the call split the buffer
WasSplit == made # None /\ Len(Made) >= 2

\* C14 as claimed: the Last record of a split is non-empty and strictly
\* smaller than a block's payload capacity, BLOCK_MAX_SIZE - 7.
C14_AsClaimed ==
    WasSplit =>
        /\ DataLen(Made[Len(Made)]) > 0
        /\ DataLen(Made[Len(Made)]) < BLOCK_MAX_SIZE - RECORD_EXTRA_SIZE

\* C14 amended: the Last record of a split is non-empty and no larger than a
\* block's payload capacity, BLOCK_MAX_SIZE - 7.
C14_LastPayload ==
    WasSplit =>
        /\ Made[Len(Made)].typ = "Last"
        /\ DataLen(Made[Len(Made)]) > 0
        /\ DataLen(Made[Len(Made)]) <= BLOCK_MAX_SIZE - RECORD_EXTRA_SIZE

\* C14 witness: a Last record that carries a whole block's payload
C14_Witness ==
    /\ WasSplit
    /\ DataLen(Made[Len(Made)]) = BLOCK_MAX_SIZE - RECORD_EXTRA_SIZE

\* the arguments make the call split: F >= 7 and len(B) + 7 > F
MustSplit ==
    /\ free_block_size >= RECORD_EXTRA_SIZE
    /\ buf_len + RECORD_EXTRA_SIZE > free_block_size

\* C15: in a split the First record carries F - 7 bytes, every Middle record
\* BLOCK_MAX_SIZE - 7 bytes and the Last record the rest; F = 10 and 1000
\* bytes give a First of 3 and a Last of 997 bytes.
C15_SplitSizes ==
    (made # None /\ MustSplit) =>
        /\ Len(Made) >= 2
        /\ Made[1] = Record_new("First", 0, free_block_size - RECORD_EXTRA_SIZE)
        /\ \A i \in 2..(Len(Made) - 1) :
              /\ Made[i].typ = "Middle"
              /\ Made[i].lo = Made[i - 1].hi
              /\ DataLen(Made[i]) = BLOCK_MAX_SIZE - RECORD_EXTRA_SIZE
        /\ Made[Len(Made)].typ = "Last"
        /\ Made[Len(Made)].lo = Made[Len(Made) - 1].hi
        /\ Made[Len(Made)].hi = buf_len
        /\ (free_block_size = 10 /\ buf_len = 1000) =>
              Made = << Record_new("First", 0, 3), Record_new("Last", 3, 1000) >>

\* C15 witness: the call of the example has returned
C15_Witness ==
    /\ made # None
    /\ free_block_size = 10
    /\ buf_len = 1000
    /\ DataLen(Made[2]) = 997

\* C16: for a free-block size of 0..6 make_records_from_buf returns what it
\* returns for BLOCK_MAX_SIZE, after one level of recursion at most.
C16_FloorRecursion ==
    (made # None /\ free_block_size <= BLOCK_MIN_FREE_SIZE) =>
        /\ Made = make_records_from_buf(BLOCK_MAX_SIZE, buf_len)
        /\ Recursions(free_block_size) <= 1
        /\ Recursions(BLOCK_MAX_SIZE) = 0

\* C16 witness: a call below the floor split its buffer over several blocks
C16_Witness ==
    /\ made # None
    /\ free_block_size > 0
    /\ free_block_size <= BLOCK_MIN_FREE_SIZE
    /\ Len(Made) >= 3

\* ------------------------------- claims: the Wal, whatever its caller does
\* C18: a write_records call that finds 1..6 bytes free in the current block
\* first writes a trailer of zero bytes over exactly those bytes, whatever its
\* input, the empty list included.
C18_TrailerFirst ==
    (call.ret # "None" /\ TrailerBefore > 0) =>
        /\ call.written # << >>
        /\ call.written[1].typ = "Trailer"
        /\ call.written[1].len = TrailerBefore

\* C19: whatever records write_records is given, records made before an
\* earlier write included, used never passes WAL_LOG_MAX_SIZE: it holds after
\* every call, which hands back the records that do not fit.
C19_NeverPastBoundary ==
    /\ used <= WAL_LOG_MAX_SIZE
    /\ call.used1 <= WAL_LOG_MAX_SIZE

\* C20: used is the number of bytes the file has accepted since it was opened,
\* and used - current_block_used is a non-negative multiple of BLOCK_MAX_SIZE:
\* every write adds the same count to both counters and current_block_used
\* restarts at 0 only from BLOCK_MAX_SIZE.
C20_CountersTrackFile ==
    /\ used = FileLen(file)
    /\ used - current_block_used >= 0
    /\ (used - current_block_used) % BLOCK_MAX_SIZE = 0

\* C20 witness: blocks have been completed, one of them by a trailer, and the
\* current block is partly used
C20_Witness ==
    /\ used > BLOCK_MAX_SIZE
    /\ current_block_used > 0
    /\ current_block_used < BLOCK_MAX_SIZE
    /\ \E i \in 1..Len(file) : file[i].typ = "Trailer"

====
